---- MODULE Spec2Model ----
(***************************************************************************)
(* A model of the clarion / cstime conversion library: the date, time and  *)
(* colour value types, their constructors and their From / TryFrom         *)
(* conversions.  The library is a set of pure functions over immutable     *)
(* values, so the state is one call chain: the value a caller starts from  *)
(* and the values obtained by applying constructors and conversions to it, *)
(* one after the other.                                                    *)
(*                                                                         *)
(* The calendar and time-of-day arithmetic of the external `time` crate    *)
(* (Date - Date, Date::checked_add, Time - Time, Time + Duration) is       *)
(* modelled by the integer algorithms the crate uses, each next to the     *)
(* call site that relies on it.                                            *)
(*                                                                         *)
(* TLC integers are 32 bits wide.  The 64-bit intermediates of the code    *)
(* are therefore carried as (quotient, remainder) pairs where the code's   *)
(* own value would not fit: see Duration_milliseconds_x10.                 *)
(***************************************************************************)
EXTENDS Integers, Sequences, FiniteSets

VARIABLES vals, ops

vars == <<vals, ops>>

(***************************************************************************)
(* Bounds of the check.                                                    *)
(***************************************************************************)
\* Radius of the window of inputs drawn around every interesting value.
Window == 2

\* Longest call chain: an input and up to MaxChain - 1 calls applied to it.
MaxChain == 4

(***************************************************************************)
(* Rust integer arithmetic.                                                *)
(***************************************************************************)
I32Max == 2147483647

I32Min == (-I32Max) - 1

\* Rust `/` on signed integers: the quotient truncated towards zero (b > 0).
\* For a < 0 that is the ceiling of a / b; written so that i32::MIN is not negated.
TruncDiv(a, b) == IF a >= 0 THEN a \div b ELSE (a + (b - 1)) \div b

\* Rust `%` on signed integers: the remainder keeps the sign of the dividend.
Rem(a, b) == a - b * TruncDiv(a, b)

\* The time crate's div_floor!: the quotient rounded towards minus infinity.
div_floor(a, b) == a \div b

\* `x as u8` of an i32: the low eight bits.
AsU8(x) == x % 256

\* Whether a + b of two i32 values overflows i32 (i32::checked_add is None).
AddOverflows(a, b) ==
    \/ (b > 0 /\ a > I32Max - b)
    \/ (b < 0 /\ a < I32Min - b)

Ok(x) == [kind |-> "Ok", v |-> x]

Err(e) == [kind |-> "Err", v |-> e]

(***************************************************************************)
(* Widened products.  The code multiplies an i32 by a small constant after *)
(* widening it to i64; the product does not fit a TLC integer, so its      *)
(* magnitude is kept as base-256 digits, least significant first.          *)
(***************************************************************************)
\* The low base-256 digit of |n| and the rest of |n|, for an i32 n.
AbsMod256(n) == IF n >= 0 THEN n % 256 ELSE (256 - (n % 256)) % 256

AbsDiv256(n) == IF n >= 0 THEN n \div 256 ELSE -TruncDiv(n, 256)

\* The digits of q * k + carry, for q >= 0 and k > 0.
RECURSIVE MulDigits(_, _, _)
MulDigits(q, k, carry) ==
    IF q = 0 /\ carry = 0 THEN <<>>
    ELSE LET t == (q % 256) * k + carry
         IN  <<t % 256>> \o MulDigits(q \div 256, k, t \div 256)

\* The digits of |n| * k.
ProductDigits(n, k) ==
    LET t == AbsMod256(n) * k
    IN  IF n = 0 THEN <<>>
        ELSE <<t % 256>> \o MulDigits(AbsDiv256(n), k, t \div 256)

\* Whether n * k overflows a signed integer of `bits` bits.
MulOverflows(n, k, bits) ==
    LET ds    == ProductDigits(n, k)
        bytes == bits \div 8
    IN  ~ \/ Len(ds) < bytes
          \/ /\ Len(ds) = bytes
             /\ \/ ds[bytes] < 128
                \/ /\ n < 0
                   /\ ds[bytes] = 128
                   /\ \A j \in 1..(bytes - 1) : ds[j] = 0

(***************************************************************************)
(* time::Date, as the date codec uses it.  A Date is a year and an ordinal *)
(* day of that year in the proleptic Gregorian calendar.                   *)
(***************************************************************************)
is_leap_year(y) == (y % 4 = 0) /\ ((y % 100 # 0) \/ (y % 400 = 0))

days_in_year(y) == IF is_leap_year(y) THEN 366 ELSE 365

\* Days of the year before the first of month m.
DaysBeforeMonth(y, m) ==
    LET cum == <<0, 31, 59, 90, 120, 151, 181, 212, 243, 273, 304, 334>>
    IN  cum[m] + (IF m > 2 /\ is_leap_year(y) THEN 1 ELSE 0)

\* The date!(y - m - d) macro.
date(y, m, d) == [year |-> y, ordinal |-> DaysBeforeMonth(y, m) + d]

\* Date::MIN and Date::MAX of the time crate (no large-dates feature):
\* -9999-01-01 and 9999-12-31.
DateMIN == date(-9999, 1, 1)

DateMAX == date(9999, 12, 31)

\* Date::to_julian_day.
to_julian_day(d) ==
    LET y == d.year - 1
    IN  d.ordinal + 365 * y + div_floor(y, 4) - div_floor(y, 100)
            + div_floor(y, 400) + 1721425

\* Date::from_julian_day_unchecked, for a Julian day in the range of Date.
from_julian_day_unchecked(jd) ==
    LET z    == jd - 1721119
        g    == 100 * z - 25
        a    == TruncDiv(g, 3652425)
        b    == a - TruncDiv(a, 4)
        y    == div_floor(100 * b + g, 36525)
        o    == b + z - div_floor(36525 * y, 100)
        len  == days_in_year(y)
        o2   == o + (IF is_leap_year(y) THEN 60 ELSE 59)
    IN  IF o2 > len THEN [year |-> y + 1, ordinal |-> o2 - len]
        ELSE IF o2 < 1 THEN [year |-> y - 1, ordinal |-> o2 + len]
        ELSE [year |-> y, ordinal |-> o2]

\* Whether Duration::days(n as i64), which forms n * 86,400 seconds in i64,
\* overflows.
Duration_days_overflows(n) == MulOverflows(n, 86400, 64)

\* (a - b).whole_days() of two dates: Date - Date is the Duration between
\* the two Julian days.
Date_sub_whole_days(a, b) == to_julian_day(a) - to_julian_day(b)

\* Date::checked_add(Duration::days(n)) for an i32 n: None when the Julian
\* day overflows i32 or leaves [Date::MIN, Date::MAX].
NoneDate == [year |-> 0, ordinal |-> 0]

Date_checked_add_days(d, n) ==
    LET jd == to_julian_day(d)
    IN  IF AddOverflows(jd, n) THEN NoneDate
        ELSE IF jd + n < to_julian_day(DateMIN) \/ jd + n > to_julian_day(DateMAX)
             THEN NoneDate
        ELSE from_julian_day_unchecked(jd + n)

(***************************************************************************)
(* clarion_date.rs: ClarionDate.                                           *)
(***************************************************************************)
\* The epoch taken one day late.
CLARION_EPOCH_late == date(1800, 12, 29)

CLARION_EPOCH == date(1800, 12, 28)

\* ClarionDate::new
ClarionDate_new(n) == [date |-> n]

\* From<Date> with the operands of the subtraction exchanged.
ClarionDate_from_reversed(d) == [date |-> Date_sub_whole_days(CLARION_EPOCH, d)]

\* impl From<Date> for ClarionDate
ClarionDate_from(d) == [date |-> Date_sub_whole_days(d, CLARION_EPOCH)]

\* TryFrom<ClarionDate> with a saturating instead of a checked addition.
Date_try_from_saturating(value) ==
    LET d == Date_checked_add_days(CLARION_EPOCH, value.date)
    IN  IF d = NoneDate THEN Ok(IF value.date < 0 THEN DateMIN ELSE DateMAX)
        ELSE Ok(d)

\* impl TryFrom<ClarionDate> for Date
Date_try_from(value) ==
    LET d == Date_checked_add_days(CLARION_EPOCH, value.date)
    IN  IF d = NoneDate THEN Err("ConversionOverflowed") ELSE Ok(d)

(***************************************************************************)
(* time::Time and time::Duration, as the time codec uses them.  A Time is  *)
(* hour, minute, second, nanosecond; a Duration is whole seconds and       *)
(* sub-second nanoseconds of the same sign.                                *)
(***************************************************************************)
MIDNIGHT == [hour |-> 0, minute |-> 0, second |-> 0, nanosecond |-> 0]

\* time!(h:m:s.cc), cc in hundredths of a second.
time(h, m, s, cc) ==
    [hour |-> h, minute |-> m, second |-> s, nanosecond |-> cc * 10000000]

\* Duration::milliseconds(n as i64 * 10) for an i32 n.  The code's product
\* n * 10 is a 64-bit value; Duration::milliseconds(ms) keeps ms / 1000
\* seconds and (ms % 1000) * 1,000,000 nanoseconds, which for ms = 10 n are
\* n / 100 and (n % 100) * 10,000,000.
Duration_milliseconds_x10(n) ==
    [seconds |-> TruncDiv(n, 100), nanoseconds |-> Rem(n, 100) * 10000000]

\* Whether the product n as i64 * 10 overflows i64.
Millis_x10_overflows(n) == MulOverflows(n, 10, 64)

\* Time + Duration: each field is advanced by the duration's part of it and
\* the carries cascade upwards; the day carry is dropped.
Time_add(t, dur) ==
    LET ns0 == t.nanosecond + dur.nanoseconds
        s0  == t.second + Rem(dur.seconds, 60)
        m0  == t.minute + Rem(TruncDiv(dur.seconds, 60), 60)
        h0  == t.hour + Rem(TruncDiv(dur.seconds, 3600), 24)
        ns1 == IF ns0 >= 1000000000 THEN ns0 - 1000000000
               ELSE IF ns0 < 0 THEN ns0 + 1000000000 ELSE ns0
        s1  == IF ns0 >= 1000000000 THEN s0 + 1
               ELSE IF ns0 < 0 THEN s0 - 1 ELSE s0
        s2  == IF s1 >= 60 THEN s1 - 60 ELSE IF s1 < 0 THEN s1 + 60 ELSE s1
        m1  == IF s1 >= 60 THEN m0 + 1 ELSE IF s1 < 0 THEN m0 - 1 ELSE m0
        m2  == IF m1 >= 60 THEN m1 - 60 ELSE IF m1 < 0 THEN m1 + 60 ELSE m1
        h1  == IF m1 >= 60 THEN h0 + 1 ELSE IF m1 < 0 THEN h0 - 1 ELSE h0
        h2  == IF h1 >= 24 THEN h1 - 24 ELSE IF h1 < 0 THEN h1 + 24 ELSE h1
    IN  [hour |-> h2, minute |-> m2, second |-> s2, nanosecond |-> ns1]

\* Time - Time: the Duration between two times of day.
Time_sub(a, b) ==
    LET secs == (a.hour - b.hour) * 3600 + (a.minute - b.minute) * 60
                    + (a.second - b.second)
        nd   == a.nanosecond - b.nanosecond
    IN  IF secs > 0 /\ nd < 0
            THEN [seconds |-> secs - 1, nanoseconds |-> nd + 1000000000]
        ELSE IF secs < 0 /\ nd > 0
            THEN [seconds |-> secs + 1, nanoseconds |-> nd - 1000000000]
        ELSE [seconds |-> secs, nanoseconds |-> nd]

\* Duration::whole_milliseconds.
whole_milliseconds(dur) ==
    dur.seconds * 1000 + TruncDiv(dur.nanoseconds, 1000000)

(***************************************************************************)
(* clarion_time.rs: ClarionTime.                                           *)
(***************************************************************************)
\* Centiseconds in 24 hours.
CentisPerDay == 8640000

\* ClarionTime::new with a digit of the day length dropped.
ClarionTime_new_short_day(n) == [time |-> Rem(n, CentisPerDay \div 10)]

\* ClarionTime::new with a floor modulo.
ClarionTime_new_floor_mod(n) == [time |-> n % CentisPerDay]

\* ClarionTime::new
ClarionTime_new(n) == [time |-> Rem(n, CentisPerDay)]

\* From<time::Time> counting whole seconds only.
ClarionTime_from_whole_seconds(t) ==
    [time |-> TruncDiv(whole_milliseconds(Time_sub(t, MIDNIGHT)), 1000) * 100]

\* From<time::Time> rounding to the nearest centisecond instead of truncating.
ClarionTime_from_rounded(t) ==
    [time |-> TruncDiv(whole_milliseconds(Time_sub(t, MIDNIGHT)) + 5, 10)]

\* impl From<time::Time> for ClarionTime
ClarionTime_from(t) ==
    [time |-> TruncDiv(whole_milliseconds(Time_sub(t, MIDNIGHT)), 10)]

\* From<ClarionTime> adding the time-of-day part of the offset's magnitude.
Time_from_ClarionTime_unsigned(value) ==
    Time_add(MIDNIGHT,
             Duration_milliseconds_x10(IF value.time < 0 THEN -value.time
                                       ELSE value.time))

\* impl From<ClarionTime> for time::Time
Time_from_ClarionTime(value) ==
    Time_add(MIDNIGHT, Duration_milliseconds_x10(value.time))

(***************************************************************************)
(* cstime.rs: CSTime.                                                      *)
(***************************************************************************)
\* CSTime::new
CSTime_new(n) == [time |-> n]

\* impl From<time::Time> for CSTime
CSTime_from(t) ==
    [time |-> TruncDiv(whole_milliseconds(Time_sub(t, MIDNIGHT)), 10)]

\* impl From<CSTime> for time::Time
Time_from_CSTime(cstime) ==
    Time_add(MIDNIGHT, Duration_milliseconds_x10(cstime.time))

(***************************************************************************)
(* clarion_color.rs and rgb_color.rs: ClarionColor and RgbColor.           *)
(***************************************************************************)
ClarionColor_MAX == 16777215

ClarionColor_MIN == 0

\* ClarionColor::new with the two comparisons joined by `||`.
ClarionColor_new_either(color) ==
    IF color <= ClarionColor_MAX \/ color >= ClarionColor_MIN
        THEN Ok([color |-> color])
        ELSE Err("OutOfRange")

\* ClarionColor::new with the upper bound excluded.
ClarionColor_new_exclusive(color) ==
    IF color < ClarionColor_MAX /\ color >= ClarionColor_MIN
        THEN Ok([color |-> color])
        ELSE Err("OutOfRange")

\* ClarionColor::new
ClarionColor_new(color) ==
    IF color <= ClarionColor_MAX /\ color >= ClarionColor_MIN
        THEN Ok([color |-> color])
        ELSE Err("OutOfRange")

\* ClarionColor::color
ClarionColor_color(c) == c.color

\* From<RgbColor> in the conventional 0xRRGGBB order.
ClarionColor_from_rrggbb(color) ==
    [color |-> color.red * 65536 + color.green * 256 + color.blue]

\* From<RgbColor> widening each channel as a signed byte.
ClarionColor_from_signed(color) ==
    LET AsI8(x) == IF x >= 128 THEN x - 256 ELSE x
    IN  [color |-> AsI8(color.red) + AsI8(color.green) * 256
                       + AsI8(color.blue) * 65536]

\* impl From<RgbColor> for ClarionColor
ClarionColor_from(color) ==
    LET red   == color.red
        green == color.green * 256
        blue  == color.blue * 65536
    IN  [color |-> red + green + blue]

\* From<ClarionColor> reading the channels in the conventional 0xRRGGBB order.
RgbColor_from_rrggbb(c) ==
    LET color == ClarionColor_color(c)
    IN  [red   |-> AsU8(TruncDiv(color, 65536)),
         green |-> AsU8(TruncDiv(Rem(color, 65536), 256)),
         blue  |-> AsU8(Rem(color, 256))]

\* impl From<ClarionColor> for RgbColor
RgbColor_from(c) ==
    LET color == ClarionColor_color(c)
        blue  == AsU8(TruncDiv(color, 65536))
        green == AsU8(TruncDiv(Rem(color, 65536), 256))
        red   == AsU8(Rem(color, 256))
    IN  [red |-> red, green |-> green, blue |-> blue]

(***************************************************************************)
(* lib.rs: the cstime crate's range-validated CSDate.                      *)
(***************************************************************************)
\* The upper bound taken one day short.
MAX_DAYS_short == 2994626 - 1

MIN_DAYS == -4309857

MAX_DAYS == 2994626

CSTIME_EPOCH == date(1800, 12, 28)

\* CSDate::new with the upper bound itself admitted one day too far.
CSDate_new_inclusive_past(n) ==
    IF n > MAX_DAYS + 1 \/ n < MIN_DAYS
        THEN Err("Date was out of range")
        ELSE Ok([date |-> n])

\* CSDate::new.  The error is a String holding this message, not a variant
\* of an error enum.
CSDate_new(n) ==
    IF n > MAX_DAYS \/ n < MIN_DAYS
        THEN Err("Date was out of range")
        ELSE Ok([date |-> n])

\* #[derive(Default)] on CSDate
CSDate_default == [date |-> 0]

\* impl From<time::Date> for CSDate
CSDate_from(d) == [date |-> Date_sub_whole_days(d, CSTIME_EPOCH)]

\* A panic of the thread: the value the caller gets from a call that aborts.
Panic(msg) == [kind |-> "panic", v |-> msg]

\* impl From<CSDate> for time::Date: checked_add(..).unwrap()
Date_from_CSDate(csdate) ==
    LET d == Date_checked_add_days(CSTIME_EPOCH, csdate.date)
    IN  IF d = NoneDate THEN Panic("unwrap on None")
        ELSE [kind |-> "Date", v |-> d]

(***************************************************************************)
(* The inputs a caller may start from: windows of radius Window around the *)
(* values at which the conversions change behaviour.                       *)
(***************************************************************************)
\* The i32 values within Window of a, clipped to the range of i32.
Near(a) ==
    LET lo == IF a < I32Min + Window THEN I32Min - a ELSE -Window
        hi == IF a > I32Max - Window THEN I32Max - a ELSE Window
    IN  {a + k : k \in lo..hi}

I32Anchors ==
    {I32Min, I32Max, 0,
     \* day offsets: the ends of the date range, year 0, 2000, 2020, 2022
     -4309857, 2994626, -657798, 72687, 80173, 80727,
     \* centisecond offsets: whole days, 16:34:00, 17:30:43
     CentisPerDay, -CentisPerDay, 2 * CentisPerDay, -2 * CentisPerDay,
     248 * CentisPerDay, -248 * CentisPerDay, 5964000, 6304300, -4320000,
     \* packed colours: the byte boundaries and the colours of the tests
     256, 65536, 32896, 4227327, 4259584, 16711680, ClarionColor_MAX}

ByteInputs == (0..Window) \cup (128 - Window..128) \cup {64} \cup (255 - Window..255)

PackedInputs ==
    {r + g * 256 + b * 65536 : r \in {0, 1, 128, 255}, g \in {0, 1, 128, 255},
                               b \in {0, 1, 64, 255}}

I32Inputs == UNION {Near(a) : a \in I32Anchors} \cup PackedInputs

YearInputs ==
    UNION {{y \in (a - Window)..(a + Window) : y >= -9999 /\ y <= 9999} :
             a \in {-9999, -400, -100, -4, 0, 1600, 1800, 1900, 2000, 2020, 9999}}

OrdinalInputs(y) ==
    (1..(1 + Window)) \cup ((59 - Window)..(61 + Window))
        \cup ((182 - Window)..(182 + Window))
        \cup ((CLARION_EPOCH.ordinal - Window)..days_in_year(y))

DateInputs == {[year |-> y, ordinal |-> o] : y \in YearInputs, o \in 1..366} \cap
              UNION {{[year |-> y, ordinal |-> o] : o \in OrdinalInputs(y)} :
                       y \in YearInputs}

NanoInputs ==
    UNION {{n \in (a - Window)..(a + Window) : n >= 0 /\ n <= 999999999} :
             a \in {0, 5000000, 10000000, 470000000, 520000000, 990000000,
                    999999999}}

TimeInputs ==
    {[hour |-> h, minute |-> m, second |-> s, nanosecond |-> n] :
        h \in {0, 10, 13, 16, 17, 23}, m \in {0, 13, 30, 34, 46, 59},
        s \in {0, 3, 43, 56, 59}, n \in NanoInputs}

RgbInputs ==
    {[red |-> r, green |-> g, blue |-> b] :
        r \in ByteInputs, g \in ByteInputs, b \in ByteInputs}

(***************************************************************************)
(* The call chain.  vals[1] is the caller's input and vals[i + 1] the      *)
(* value returned by the call ops[i + 1] applied to vals[i].               *)
(***************************************************************************)
Value(kind, v) == [kind |-> kind, v |-> v]

Cur == IF vals = <<>> THEN Value("none", 0) ELSE vals[Len(vals)]

Call(name, result) ==
    /\ Len(vals) < MaxChain
    /\ vals' = Append(vals, result)
    /\ ops' = Append(ops, name)

\* A caller holds a Date: its own input, or the unwrapped Ok of a decode.
HoldsDate(x) ==
    \/ x.kind = "Date"
    \/ (x.kind = "Result<Date>" /\ x.v.kind = "Ok")

TheDate(x) == IF x.kind = "Date" THEN x.v ELSE x.v.v

\* A caller holds a ClarionColor: from From<RgbColor>, or the unwrapped Ok
\* of ClarionColor::new.
HoldsColor(x) ==
    \/ x.kind = "ClarionColor"
    \/ (x.kind = "Result<ClarionColor>" /\ x.v.kind = "Ok")

TheColor(x) == IF x.kind = "ClarionColor" THEN x.v ELSE x.v.v

Init ==
    /\ vals = <<>>
    /\ ops = <<>>

\* The caller starts from an input of its own.
Given ==
    /\ vals = <<>>
    /\ \E x \in {Value("i32", n) : n \in I32Inputs}
             \cup {Value("Date", d) : d \in DateInputs}
             \cup {Value("Time", t) : t \in TimeInputs}
             \cup {Value("RgbColor", c) : c \in RgbInputs} :
          vals' = <<x>>
    /\ ops' = <<"given">>

\* The caller drops the values it holds.
Drop ==
    /\ vals # <<>>
    /\ vals' = <<>>
    /\ ops' = <<>>

NewClarionDate ==
    /\ Cur.kind = "i32"
    /\ Call("ClarionDate::new", Value("ClarionDate", ClarionDate_new(Cur.v)))

EncodeDate ==
    /\ HoldsDate(Cur)
    /\ Call("ClarionDate::from", Value("ClarionDate", ClarionDate_from(TheDate(Cur))))

DecodeDate ==
    /\ Cur.kind = "ClarionDate"
    /\ Call("Date::try_from", Value("Result<Date>", Date_try_from(Cur.v)))

NewClarionTime ==
    /\ Cur.kind = "i32"
    /\ Call("ClarionTime::new", Value("ClarionTime", ClarionTime_new(Cur.v)))

NewCSTime ==
    /\ Cur.kind = "i32"
    /\ Call("CSTime::new", Value("CSTime", CSTime_new(Cur.v)))

EncodeClarionTime ==
    /\ Cur.kind = "Time"
    /\ Call("ClarionTime::from", Value("ClarionTime", ClarionTime_from(Cur.v)))

EncodeCSTime ==
    /\ Cur.kind = "Time"
    /\ Call("CSTime::from", Value("CSTime", CSTime_from(Cur.v)))

DecodeClarionTime ==
    /\ Cur.kind = "ClarionTime"
    /\ Call("Time::from", Value("Time", Time_from_ClarionTime(Cur.v)))

DecodeCSTime ==
    /\ Cur.kind = "CSTime"
    /\ Call("Time::from", Value("Time", Time_from_CSTime(Cur.v)))

NewClarionColor ==
    /\ Cur.kind = "i32"
    /\ Call("ClarionColor::new", Value("Result<ClarionColor>", ClarionColor_new(Cur.v)))

EncodeColor ==
    /\ Cur.kind = "RgbColor"
    /\ Call("ClarionColor::from", Value("ClarionColor", ClarionColor_from(Cur.v)))

DecodeColor ==
    /\ HoldsColor(Cur)
    /\ Call("RgbColor::from", Value("RgbColor", RgbColor_from(TheColor(Cur))))

\* A caller holds a CSDate: from From<Date> or Default, or the unwrapped Ok
\* of CSDate::new.
HoldsCSDate(x) ==
    \/ x.kind = "CSDate"
    \/ (x.kind = "Result<CSDate>" /\ x.v.kind = "Ok")

TheCSDate(x) == IF x.kind = "CSDate" THEN x.v ELSE x.v.v

NewCSDate ==
    /\ Cur.kind = "i32"
    /\ Call("CSDate::new", Value("Result<CSDate>", CSDate_new(Cur.v)))

\* CSDate::default() takes no input: it starts a chain.
DefaultCSDate ==
    /\ vals = <<>>
    /\ vals' = <<Value("CSDate", CSDate_default)>>
    /\ ops' = <<"CSDate::default">>

EncodeCSDate ==
    /\ HoldsDate(Cur)
    /\ Call("CSDate::from", Value("CSDate", CSDate_from(TheDate(Cur))))

DecodeCSDate ==
    /\ HoldsCSDate(Cur)
    /\ Call("Date::from", Date_from_CSDate(TheCSDate(Cur)))

Next ==
    \/ Given
    \/ NewClarionDate
    \/ EncodeDate
    \/ DecodeDate
    \/ NewClarionTime
    \/ NewCSTime
    \/ EncodeClarionTime
    \/ EncodeCSTime
    \/ DecodeClarionTime
    \/ DecodeCSTime
    \/ NewClarionColor
    \/ EncodeColor
    \/ DecodeColor
    \/ NewCSDate
    \/ DefaultCSDate
    \/ EncodeCSDate
    \/ DecodeCSDate
    \/ Drop

Spec == Init /\ [][Next]_vars

(***************************************************************************)
(* Reading the call chain.                                                 *)
(***************************************************************************)
\* The positions i whose value vals[i] was passed to a call.
Calls == {i \in 1..Len(vals) : i + 1 <= Len(vals)}

\* The chain is exactly the calls `names` applied to the input x.
ChainIs(x, names) ==
    /\ Len(vals) = Len(names) + 1
    /\ vals[1] = x
    /\ ops = <<"given">> \o names

(***************************************************************************)
(* The date codec.                                                         *)
(***************************************************************************)
\* A year and an ordinal that name a day of the calendar within Date's range.
IsCalendarDate(d) ==
    /\ d.year >= -9999 /\ d.year <= 9999
    /\ d.ordinal >= 1 /\ d.ordinal <= days_in_year(d.year)

\* The calendar day after d.
NextDay(d) ==
    IF d.ordinal < days_in_year(d.year)
        THEN [year |-> d.year, ordinal |-> d.ordinal + 1]
        ELSE [year |-> d.year + 1, ordinal |-> 1]

\* C1: date round trip.  Whenever a Date d between Date::MIN and Date::MAX
\* is encoded (From<Date> for ClarionDate) and the offset decoded again
\* (TryFrom<ClarionDate> for Date), the decode succeeds and returns d.
C1_DateRoundTrip ==
    \A i \in Calls :
        (i + 2 <= Len(vals) /\ ops[i + 1] = "ClarionDate::from"
            /\ ops[i + 2] = "Date::try_from")
        => /\ IsCalendarDate(TheDate(vals[i]))
           /\ vals[i + 2].v = Ok(TheDate(vals[i]))

\* The round trip was made from Date::MAX.
C1_Witness ==
    /\ ChainIs(Value("Date", DateMAX), <<"ClarionDate::from", "Date::try_from">>)
    /\ vals[3].v = Ok(DateMAX)

\* C2: date decode overflow boundary.  Date::MIN and Date::MAX encode to
\* -4,309,857 and 2,994,626; decoding an i32 offset o fails with
\* ConversionOverflowed exactly when o < -4,309,857 or o > 2,994,626, and
\* otherwise returns the calendar date o whole days from 28 December 1800.
C2_DecodeOverflowBoundary ==
    \A i \in Calls :
        /\ (ops[i + 1] = "ClarionDate::from" /\ TheDate(vals[i]) = date(-9999, 1, 1))
            => vals[i + 1].v.date = -4309857
        /\ (ops[i + 1] = "ClarionDate::from" /\ TheDate(vals[i]) = date(9999, 12, 31))
            => vals[i + 1].v.date = 2994626
        /\ ops[i + 1] = "Date::try_from"
            => LET o == vals[i].v.date
                   r == vals[i + 1].v
               IN  IF o < -4309857 \/ o > 2994626
                       THEN r = Err("ConversionOverflowed")
                       ELSE /\ r.kind = "Ok"
                            /\ IsCalendarDate(r.v)
                            /\ to_julian_day(r.v) - to_julian_day(date(1800, 12, 28)) = o

\* The offset one past the largest decodable one was decoded, and failed.
C2_Witness ==
    /\ ChainIs(Value("i32", 2994627), <<"ClarionDate::new", "Date::try_from">>)
    /\ vals[3].v = Err("ConversionOverflowed")

\* The offsets and dates the epoch anchoring names, in both directions.
EpochAnchors ==
    {<<0, date(1800, 12, 28)>>, <<1, date(1800, 12, 29)>>,
     <<-1, date(1800, 12, 27)>>, <<72687, date(2000, 1, 1)>>}

\* C3: epoch anchoring.  Offsets 0, 1, -1 and 72,687 decode to 28, 29 and
\* 27 December 1800 and 1 January 2000, and those dates encode to those
\* offsets; 0000-01-01 encodes to -657,798 and -0001-12-31 to -657,799; and
\* the day after a date d (other than Date::MAX) encodes to encode(d) + 1.
C3_EpochAnchoring ==
    \A i \in Calls :
        /\ ops[i + 1] = "Date::try_from"
            => \A a \in EpochAnchors :
                   vals[i].v.date = a[1] => vals[i + 1].v = Ok(a[2])
        /\ ops[i + 1] = "ClarionDate::from"
            => LET d == TheDate(vals[i])
                   e == vals[i + 1].v.date
               IN  /\ \A a \in EpochAnchors : d = a[2] => e = a[1]
                   /\ d = date(0, 1, 1) => e = -657798
                   /\ d = date(-1, 12, 31) => e = -657799
                   /\ d # date(9999, 12, 31)
                        => ClarionDate_from(NextDay(d)).date = e + 1

\* The last day of year -1 was encoded: its successor is the first of year 0.
C3_Witness ==
    /\ ChainIs(Value("Date", date(-1, 12, 31)), <<"ClarionDate::from">>)
    /\ vals[2].v.date = -657799
    /\ NextDay(vals[1].v) = date(0, 1, 1)

(***************************************************************************)
(* The time-of-day codec.                                                  *)
(***************************************************************************)
\* The time of day c centiseconds after midnight, 0 <= c < 8,640,000.
CentisAfterMidnight(c) ==
    [hour |-> c \div 360000, minute |-> (c \div 6000) % 60,
     second |-> (c \div 100) % 60, nanosecond |-> (c % 100) * 10000000]

\* The whole milliseconds of a time of day since midnight.
MillisSinceMidnight(t) ==
    ((t.hour * 60 + t.minute) * 60 + t.second) * 1000 + t.nanosecond \div 1000000

\* The i32 offsets and times of day the wraparound examples name.
WrapExamples ==
    {<<0, time(0, 0, 0, 0)>>, <<1, time(0, 0, 0, 1)>>, <<-1, time(23, 59, 59, 99)>>,
     <<I32Max, time(13, 13, 56, 47)>>, <<I32Min, time(10, 46, 3, 52)>>}

\* C4: time decode wraps modulo 24 hours.  For an i32 n given to
\* ClarionTime::new or CSTime::new, the decoded time of day is n floor-modulo
\* 8,640,000 centiseconds after midnight; in particular 0 -> 00:00:00,
\* 1 -> 00:00:00.01, -1 -> 23:59:59.99, i32::MAX -> 13:13:56.47 and
\* i32::MIN -> 10:46:03.52.
C4_TimeDecodeWraps ==
    \A i \in Calls :
        (i + 2 <= Len(vals) /\ ops[i + 1] \in {"ClarionTime::new", "CSTime::new"}
            /\ ops[i + 2] = "Time::from")
        => LET n == vals[i].v
               t == vals[i + 2].v
           IN  /\ t = CentisAfterMidnight(n % 8640000)
               /\ \A x \in WrapExamples : n = x[1] => t = x[2]

\* i32::MIN went through the normalising constructor and was decoded.
C4_Witness ==
    /\ ChainIs(Value("i32", I32Min), <<"ClarionTime::new", "Time::from">>)
    /\ vals[3].v = time(10, 46, 3, 52)

\* C5: time round trip with centisecond truncation.  Encoding a time of day
\* t and decoding the offset gives t rounded down to a whole multiple of
\* 10 ms, which is t exactly when t is aligned to 10 ms.
C5_TimeRoundTripTruncates ==
    \A i \in Calls :
        (i + 2 <= Len(vals) /\ ops[i + 1] \in {"ClarionTime::from", "CSTime::from"}
            /\ ops[i + 2] = "Time::from")
        => LET t == vals[i].v
               r == vals[i + 2].v
           IN  /\ r = [t EXCEPT !.nanosecond = (t.nanosecond \div 10000000) * 10000000]
               /\ (r = t) <=> (t.nanosecond % 10000000 = 0)

\* A time 5.000001 ms past a whole second came back as the whole second.
C5_Witness ==
    /\ ChainIs(Value("Time", [hour |-> 17, minute |-> 30, second |-> 43,
                              nanosecond |-> 5000001]),
               <<"ClarionTime::from", "Time::from">>)
    /\ vals[3].v = time(17, 30, 43, 0)

\* C6: time encode.  The offset of a time of day is its whole milliseconds
\* since midnight divided by 10, truncated: a value in [0, 8,639,999]
\* (16:34:00 encodes to 5,964,000).
C6_TimeEncode ==
    \A i \in Calls :
        ops[i + 1] \in {"ClarionTime::from", "CSTime::from"}
        => LET t == vals[i].v
               e == vals[i + 1].v.time
           IN  /\ e = MillisSinceMidnight(t) \div 10
               /\ e >= 0 /\ e <= 8639999
               /\ t = time(16, 34, 0, 0) => e = 5964000

\* The last nanosecond of the day was encoded to the last centisecond.
C6_Witness ==
    /\ ChainIs(Value("Time", [hour |-> 23, minute |-> 59, second |-> 59,
                              nanosecond |-> 999999999]),
               <<"ClarionTime::from">>)
    /\ vals[2].v.time = 8639999

(***************************************************************************)
(* The colour codec.                                                       *)
(***************************************************************************)
RGB(r, g, b) == [red |-> r, green |-> g, blue |-> b]

\* C7: colour round trip.  For a packed colour p in [0, 16,777,215],
\* ClarionColor::new(p) decoded to an RgbColor and encoded back is a
\* ClarionColor whose color() is p.
C7_ColourRoundTrip ==
    \A i \in Calls :
        (i + 3 <= Len(vals) /\ ops[i + 1] = "ClarionColor::new"
            /\ ops[i + 2] = "RgbColor::from" /\ ops[i + 3] = "ClarionColor::from")
        => /\ vals[i].v >= 0 /\ vals[i].v <= 16777215
           /\ ClarionColor_color(vals[i + 3].v) = vals[i].v

\* The round trip was made from 4,259,584, whose three bytes all differ.
C7_Witness ==
    /\ ChainIs(Value("i32", 4259584),
               <<"ClarionColor::new", "RgbColor::from", "ClarionColor::from">>)
    /\ vals[3].v = RGB(0, 255, 64)
    /\ vals[4].v.color = 4259584

\* The packed colours and channel triples the byte-order examples name.
ByteOrderExamples ==
    {<<255, RGB(255, 0, 0)>>, <<16711680, RGB(0, 0, 255)>>,
     <<4259584, RGB(0, 255, 64)>>, <<16777215, RGB(255, 255, 255)>>}

\* C8: colour decode byte order.  A packed colour p in [0, 16,777,215]
\* decodes to red = p % 256, green = (p / 256) % 256 and blue = p / 65536,
\* the cast to 8 bits changing no channel; 255 -> (255,0,0),
\* 16,711,680 -> (0,0,255), 4,259,584 -> (0,255,64),
\* 16,777,215 -> (255,255,255).
C8_ColourDecodeByteOrder ==
    \A i \in Calls :
        ops[i + 1] = "RgbColor::from"
        => LET p == TheColor(vals[i]).color
               c == vals[i + 1].v
           IN  /\ p >= 0 /\ p <= 16777215
               /\ c = RGB(p % 256, (p \div 256) % 256, p \div 65536)
               /\ \A x \in ByteOrderExamples : p = x[1] => c = x[2]

\* A validated packed colour with only its most significant byte set was
\* decoded to pure blue.
C8_Witness ==
    /\ ChainIs(Value("i32", 16711680), <<"ClarionColor::new", "RgbColor::from">>)
    /\ vals[3].v = RGB(0, 0, 255)

\* The channel triples and packed colours the encode examples name.
EncodeExamples ==
    {<<RGB(255, 128, 64), 4227327>>, <<RGB(0, 255, 64), 4259584>>,
     <<RGB(0, 0, 255), 16711680>>}

\* C9: colour encode.  An RgbColor (r, g, b) encodes to r + g*256 + b*65536,
\* a non-negative value of at most 16,777,215, so that nothing overflows or
\* turns negative; (255,128,64) -> 4,227,327, (0,255,64) -> 4,259,584,
\* (0,0,255) -> 16,711,680.
C9_ColourEncode ==
    \A i \in Calls :
        ops[i + 1] = "ClarionColor::from"
        => LET c == vals[i].v
               e == vals[i + 1].v.color
           IN  /\ e = c.red + c.green * 256 + c.blue * 65536
               /\ e >= 0 /\ e <= 16777215
               /\ \A x \in EncodeExamples : c = x[1] => e = x[2]

\* A triple with every channel above 127 was encoded.
C9_Witness ==
    /\ ChainIs(Value("RgbColor", RGB(255, 128, 255)), <<"ClarionColor::from">>)
    /\ vals[2].v.color = 16744703

\* C10: packed-colour validation.  ClarionColor::new(v) is Ok exactly when
\* 0 <= v <= 16,777,215, and then color() returns v; otherwise it is
\* Err(OutOfRange).
C10_PackedColourValidation ==
    \A i \in Calls :
        ops[i + 1] = "ClarionColor::new"
        => LET v == vals[i].v
               r == vals[i + 1].v
           IN  IF v >= 0 /\ v <= 16777215
                   THEN r.kind = "Ok" /\ ClarionColor_color(r.v) = v
                   ELSE r = Err("OutOfRange")

\* The first value above the range was refused.
C10_Witness ==
    /\ ChainIs(Value("i32", 16777216), <<"ClarionColor::new">>)
    /\ vals[2].v = Err("OutOfRange")

(***************************************************************************)
(* The normalising time constructor.                                       *)
(***************************************************************************)
\* C11: normalising time construction uses a true mathematical modulo.  The
\* offset stored by ClarionTime::new(n) and read back with time() lies in
\* [0, 8,640,000) for every i32 n, negative n included.
C11_NormalisedIntoDay ==
    \A i \in Calls :
        ops[i + 1] = "ClarionTime::new"
        => /\ vals[i + 1].v.time >= 0
           /\ vals[i + 1].v.time < 8640000
           /\ vals[i + 1].v.time = vals[i].v % 8640000

(***************************************************************************)
(* The range-validated date of lib.rs.                                     *)
(***************************************************************************)
\* C12: constructing a range-validated date out of range fails with the
\* OutOfRange failure kind.  CSDate::new(o) for o outside
\* [MIN_DAYS, MAX_DAYS] returns Err(OutOfRange).
C12_EagerDateOutOfRangeKind ==
    \A i \in Calls :
        (ops[i + 1] = "CSDate::new"
            /\ (vals[i].v < -4309857 \/ vals[i].v > 2994626))
        => vals[i + 1].v = Err("OutOfRange")

\* A time of day: every field within its range.
IsTimeOfDay(t) ==
    /\ t.hour >= 0 /\ t.hour <= 23
    /\ t.minute >= 0 /\ t.minute <= 59
    /\ t.second >= 0 /\ t.second <= 59
    /\ t.nanosecond >= 0 /\ t.nanosecond <= 999999999

\* C13: no conversion aborts.  No call panics; date decode returns a
\* calendar date or ConversionOverflowed; time decode returns a time of day;
\* the widened products offset * 10 and days * 86,400 do not overflow i64;
\* and every CSDate a caller can hold (from CSDate::new, From<Date> or
\* Default) has its offset in [MIN_DAYS, MAX_DAYS], so that the unwrap in
\* From<CSDate> for Date succeeds.
C13_NoConversionAborts ==
    /\ \A i \in 1..Len(vals) :
          /\ vals[i].kind # "panic"
          /\ HoldsCSDate(vals[i])
                => /\ TheCSDate(vals[i]).date >= -4309857
                   /\ TheCSDate(vals[i]).date <= 2994626
    /\ \A i \in Calls :
          /\ ops[i + 1] = "Date::try_from"
                => /\ ~Duration_days_overflows(vals[i].v.date)
                   /\ \/ vals[i + 1].v = Err("ConversionOverflowed")
                      \/ /\ vals[i + 1].v.kind = "Ok"
                         /\ IsCalendarDate(vals[i + 1].v.v)
          /\ ops[i + 1] = "Time::from"
                => /\ ~Millis_x10_overflows(vals[i].v.time)
                   /\ IsTimeOfDay(vals[i + 1].v)
          /\ ops[i + 1] = "Date::from"
                => /\ ~Duration_days_overflows(TheCSDate(vals[i]).date)
                   /\ vals[i + 1].kind = "Date"
                   /\ IsCalendarDate(vals[i + 1].v)

\* The largest offset CSDate::new accepts was decoded, to Date::MAX.
C13_Witness ==
    /\ ChainIs(Value("i32", 2994626), <<"CSDate::new", "Date::from">>)
    /\ vals[3] = Value("Date", date(9999, 12, 31))

SignedRemainder(n, d) ==
    IF n >= 0 \/ n % d = 0 THEN n % d ELSE (n % d) - d

\* C15: the normalise-on-construct and normalise-on-decode time variants
\* decode alike.  ClarionTime::new(n) stores the sign-preserving remainder
\* of n by 8,640,000 and CSTime::new(n) stores n; both decode to the same
\* time of day, for every i32 n.
C15_TimeVariantsDecodeAlike ==
    \A i \in Calls :
        /\ ops[i + 1] = "ClarionTime::new"
              => vals[i + 1].v.time = SignedRemainder(vals[i].v, 8640000)
        /\ ops[i + 1] = "CSTime::new"
              => vals[i + 1].v.time = vals[i].v
        /\ (i + 2 <= Len(vals) /\ ops[i + 1] = "ClarionTime::new"
                /\ ops[i + 2] = "Time::from")
              => vals[i + 2].v = Time_from_CSTime(CSTime_new(vals[i].v))
        /\ (i + 2 <= Len(vals) /\ ops[i + 1] = "CSTime::new"
                /\ ops[i + 2] = "Time::from")
              => vals[i + 2].v = Time_from_ClarionTime(ClarionTime_new(vals[i].v))

\* A negative offset of more than a day was normalised, keeping its sign,
\* and decoded.
C15_Witness ==
    /\ ChainIs(Value("i32", -8640001), <<"ClarionTime::new", "Time::from">>)
    /\ vals[2].v.time = -1
    /\ vals[3].v = time(23, 59, 59, 99)

\* C16: ClarionColor range invariant.  Every ClarionColor a caller can hold,
\* from ClarionColor::new returning Ok or from From<RgbColor>, holds a colour
\* in [0, 16,777,215]; decoding it truncates no channel in the cast to u8.
C16_ColourRangeInvariant ==
    /\ \A i \in 1..Len(vals) :
          HoldsColor(vals[i])
          => /\ TheColor(vals[i]).color >= ClarionColor_MIN
             /\ TheColor(vals[i]).color <= ClarionColor_MAX
    /\ \A i \in Calls :
          ops[i + 1] = "RgbColor::from"
          => LET color == TheColor(vals[i]).color
             IN  /\ AsU8(TruncDiv(color, 65536)) = TruncDiv(color, 65536)
                 /\ AsU8(TruncDiv(Rem(color, 65536), 256))
                        = TruncDiv(Rem(color, 65536), 256)
                 /\ AsU8(Rem(color, 256)) = Rem(color, 256)

\* White was obtained from an RgbColor, without ClarionColor::new, and decoded.
C16_Witness ==
    /\ ChainIs(Value("RgbColor", RGB(255, 255, 255)),
               <<"ClarionColor::from", "RgbColor::from">>)
    /\ vals[2].v.color = 16777215
    /\ vals[3].v = RGB(255, 255, 255)

\* C17: time encode-after-decode canonicalises.  Encoding the time of day
\* decoded from ClarionTime::new(n) gives a ClarionTime whose time() is n
\* floor-modulo 8,640,000, in [0, 8,639,999]; it equals ClarionTime::new(n)
\* exactly when n is non-negative or a multiple of 8,640,000, although both
\* decode to the same time of day.
C17_EncodeAfterDecodeCanonical ==
    \A i \in Calls :
        (i + 3 <= Len(vals) /\ ops[i + 1] = "ClarionTime::new"
            /\ ops[i + 2] = "Time::from" /\ ops[i + 3] = "ClarionTime::from")
        => LET n == vals[i].v
           IN  /\ vals[i + 3].v.time = n % 8640000
               /\ vals[i + 3].v.time >= 0 /\ vals[i + 3].v.time <= 8639999
               /\ (vals[i + 3].v = vals[i + 1].v)
                     <=> (n >= 0 \/ n % 8640000 = 0)
               /\ Time_from_ClarionTime(vals[i + 3].v) = vals[i + 2].v

\* Two unequal ClarionTime values, -1 and 8,639,999, decode to 23:59:59.99.
C17_Witness ==
    /\ ChainIs(Value("i32", -1),
               <<"ClarionTime::new", "Time::from", "ClarionTime::from">>)
    /\ vals[2].v = [time |-> -1]
    /\ vals[4].v = [time |-> 8639999]
    /\ vals[2].v # vals[4].v
    /\ Time_from_ClarionTime(vals[2].v) = Time_from_ClarionTime(vals[4].v)

====
